---- MODULE Spec2Model ----
(***************************************************************************)
(* Model of src/src/housing_assessment_prediction.py: one run of main()    *)
(* (load, four cross-validations, ridge refit, test score, coefficient     *)
(* table, three CSV writes with the directory-creation fallback), and a    *)
(* second invocation of the script on the same inputs.                     *)
(*                                                                         *)
(* The numerical work is done by scikit-learn / xgboost / numpy.  What the *)
(* library returns is represented as follows:                              *)
(*   - an R2 score is a symbolic value naming the computation it comes     *)
(*     from (estimator, data, folds, seed, part);                          *)
(*   - wall-clock timings and OS entropy are given by the environment;     *)
(*   - the fitted ridge vector is drawn from a bounded family, in fixed    *)
(*     point (units of 0.001);                                             *)
(*   - np.argsort (default kind, not stable) may return any permutation    *)
(*     that orders the keys ascending.                                     *)
(***************************************************************************)
EXTENDS Integers, Sequences, FiniteSets, TLC

VARIABLES
    pc,             \* position in main(): a label of Program, or "failed"
    run,            \* 1: first invocation, 2: the re-run
    err,            \* the exception that ended the run ("none" while running)
    failed_at,      \* the label at which the run failed ("none" otherwise)
    \* ---- environment, fixed for both runs
    in_exists,      \* which of in_file1 (1), in_file2 (2) can be read
    X_train,        \* training table: sequence of rows
    X_test,         \* test table: sequence of rows
    fit_case,       \* which vector of the bounded family RidgeCV returns
    elapsed,        \* elapsed[r][m]: <<fit_time, score_time>> measured in run r
    entropy,        \* entropy[r]: OS entropy seeding an unseeded estimator
    out_dir,        \* out_dir[k]: os.path.dirname(out_file k), a path
    fault,          \* fault[k]: I/O error of writing out_file k in an existing dir
    \* ---- file system
    dirs,           \* existing directories
    created,        \* output files this run created or modified
    written,        \* output files this run wrote completely
    \* ---- program state
    calls,          \* library calls made so far, in order
    store_scores,   \* sequence of [name, values]: the dict of line 57
    scores_df,      \* <<>> or the table of line 101
    prev_scores,    \* scores_df of the previous run (<<>> if none)
    categories_,    \* <<>> or <<fitted encoder categories>> of `preprocessor`
    coef_,          \* <<>> or the fitted ridge coefficients
    X_test_enc,     \* <<>> or the encoded test rows seen by predict
    test_set_score, \* <<>> or the one-row table of line 107
    inds,           \* <<>> or the argsort result of line 119
    feature_table,  \* <<>> or the table of line 120
    \* ---- writer bookkeeping (per output file)
    attempts,       \* attempts[k]: results of the to_csv calls, in order
    mkdirs          \* mkdirs[k]: results of the os.makedirs calls, in order

vars == <<pc, run, err, failed_at, in_exists, X_train, X_test, fit_case, elapsed,
          entropy, out_dir, fault, dirs, created, written, calls, store_scores,
          scores_df, prev_scores, categories_, coef_, X_test_enc, test_set_score,
          inds, feature_table, attempts, mkdirs>>

env_vars == <<in_exists, X_train, X_test, fit_case, elapsed, entropy, out_dir, fault>>
fit_vars == <<categories_, coef_, X_test_enc, test_set_score, inds, feature_table>>
fs_vars == <<dirs, created, written, attempts, mkdirs>>

----------------------------------------------------------------------------
(* Bounds *)

MaxRows == 2       \* rows of a training table
MaxDepth == 2      \* directory levels of an output path

----------------------------------------------------------------------------
(* Columns and values *)

categorical_features == <<"BLDG_DESC">>
binary_features == <<"GARAGE", "FIREPLACE", "BASEMENT", "BSMTDEVL">>
numerical_features == <<"AGE", "BLDG_FEET", "LATITUDE", "LONGITUDE">>

NA == "NaN"
fill_value == "missing_value"

\* Sort order of the values used (str comparison: upper case before lower).
Alphabet == <<"A", "B", "C", "N", "Y", "missing_value">>

Rank(v) == CHOOSE i \in 1..Len(Alphabet) : Alphabet[i] = v

Range(s) == {s[i] : i \in DOMAIN s}

RECURSIVE SortedSeq(_)
SortedSeq(S) ==
    IF S = {} THEN <<>>
    ELSE LET m == CHOOSE x \in S : \A y \in S : Rank(x) <= Rank(y)
         IN <<m>> \o SortedSeq(S \ {m})

Column(X, c) == [i \in 1..Len(X) |-> X[i][c]]

----------------------------------------------------------------------------
(* Preprocessing: SimpleImputer and OneHotEncoder *)

\* SimpleImputer(strategy="constant") on a string column.
Impute(v) == IF v = NA THEN fill_value ELSE v

\* OneHotEncoder.fit: the sorted distinct values of the column.
FitCategories(col) == SortedSeq(Range(col))

categorical_handle_unknown_error == "error"
categorical_handle_unknown == "ignore"
binary_handle_unknown == "error"
categorical_drop == "none"
binary_drop_first == "first"
binary_drop == "if_binary"

\* The categories that keep an indicator column under `drop`.
KeptCategories(cats, drop) ==
    IF drop = "first" THEN Tail(cats)
    ELSE IF drop = "if_binary" /\ Len(cats) = 2 THEN Tail(cats)
    ELSE cats

\* ColumnTransformer.fit on the training table.
FitPreprocessor(X) ==
    [cat |-> FitCategories([i \in 1..Len(X) |-> Impute(X[i].BLDG_DESC)]),
     bin |-> [j \in 1..Len(binary_features) |->
                 FitCategories(Column(X, binary_features[j]))]]

\* OneHotEncoder.transform of one value.
EncodeValue(cats, drop, handle_unknown, v) ==
    LET kept == KeptCategories(cats, drop) IN
    IF v \in Range(cats)
    THEN [ok |-> TRUE, row |-> [i \in 1..Len(kept) |-> IF kept[i] = v THEN 1 ELSE 0]]
    ELSE IF handle_unknown = "ignore"
    THEN [ok |-> TRUE, row |-> [i \in 1..Len(kept) |-> 0]]
    ELSE [ok |-> FALSE, row |-> <<>>]

RECURSIVE EncodeBinary(_, _, _)
EncodeBinary(fitted, row, j) ==
    IF j > Len(binary_features) THEN [ok |-> TRUE, row |-> <<>>]
    ELSE LET e == EncodeValue(fitted.bin[j], binary_drop, binary_handle_unknown,
                              row[binary_features[j]])
             rest == EncodeBinary(fitted, row, j + 1)
         IN [ok |-> e.ok /\ rest.ok, row |-> e.row \o rest.row]

\* ColumnTransformer.transform of one row: the categorical block and the
\* binary block (the numerical block is passed through by the imputer).
Transform(fitted, row) ==
    LET c == EncodeValue(fitted.cat, categorical_drop, categorical_handle_unknown,
                         Impute(row.BLDG_DESC))
        b == EncodeBinary(fitted, row, 1)
    IN [ok |-> c.ok /\ b.ok, cat_ok |-> c.ok, cat |-> c.row, bin |-> b.row]

\* get_feature_names of one encoder column.
ColumnNames(name, cats, drop) ==
    LET kept == KeptCategories(cats, drop)
    IN [i \in 1..Len(kept) |-> <<name, kept[i]>>]

RECURSIVE BinaryNames(_, _)
BinaryNames(fitted, j) ==
    IF j > Len(binary_features) THEN <<>>
    ELSE ColumnNames(binary_features[j], fitted.bin[j], binary_drop)
         \o BinaryNames(fitted, j + 1)

ohe_columns(fitted) == ColumnNames(categorical_features[1], fitted.cat, categorical_drop)
binary_columns(fitted) == BinaryNames(fitted, 1)

\* features = ohe_columns + binary_columns + numerical_features
Features(fitted) ==
    ohe_columns(fitted) \o binary_columns(fitted)
    \o [i \in 1..Len(numerical_features) |-> <<numerical_features[i]>>]

\* Number of columns of the transformed matrix = length of coef_.
NumColumns(fitted) ==
    LET t == Transform(fitted, [BLDG_DESC |-> fitted.cat[1], GARAGE |-> fitted.bin[1][1],
                                FIREPLACE |-> fitted.bin[2][1], BASEMENT |-> fitted.bin[3][1],
                                BSMTDEVL |-> fitted.bin[4][1]])
    IN Len(t.cat) + Len(t.bin) + Len(numerical_features)

----------------------------------------------------------------------------
(* Rounding, ridge coefficients, argsort *)

\* numpy / pandas round: to the nearest multiple of `unit`, halves to even.
RoundHalfEven(x, unit) ==
    LET q == x \div unit
        r == x % unit
    IN IF 2 * r < unit THEN q * unit
       ELSE IF 2 * r > unit THEN (q + 1) * unit
       ELSE IF q % 2 = 0 THEN q * unit ELSE (q + 1) * unit

\* Timings are in units of 0.00001 s: .round(4) is rounding to 10 units.
Round4(t) == RoundHalfEven(t, 10)

\* Coefficients are in units of 0.001: .round(2) is rounding to 10 units.
Round2(c) == RoundHalfEven(c, 10)

\* The values the fitted coefficients are drawn from: negative, zero,
\* values that round together (-25 and -15 show -20; -5, 0, 4 and 5 show 0;
\* 15 and 25 show 20). A vector longer than the palette repeats values.
CoefPalette == <<-25, -15, -5, 0, 4, 5, 15, 25, 35>>
Strides == {1, 2}
FitCases == [stride : Strides, offset : 0..(Len(CoefPalette) - 1)]

\* RidgeCV(...).fit(...).coef_ : one coefficient per transformed column.
RidgeCoef(n, c) ==
    [i \in 1..n |-> CoefPalette[((c.stride * i + c.offset) % Len(CoefPalette)) + 1]]

Orderings(S) == {p \in [1..Cardinality(S) -> S] : \A i, j \in DOMAIN p : i # j => p[i] # p[j]}

Abs(x) == IF x < 0 THEN -x ELSE x

RECURSIVE SortGroups(_, _)
SortGroups(key, rest) ==
    IF rest = {} THEN {<<>>}
    ELSE LET m == CHOOSE x \in rest : \A y \in rest : key[x] <= key[y]
             G == {x \in rest : key[x] = key[m]}
         IN {p \o q : p \in Orderings(G), q \in SortGroups(key, rest \ G)}

ArgsortDescending(key) ==
    SortGroups([i \in DOMAIN key |-> -key[i]], DOMAIN key)

ArgsortAbs(key) ==
    SortGroups([i \in DOMAIN key |-> Abs(key[i])], DOMAIN key)

\* np.argsort(key), default kind: every permutation that puts the keys in
\* ascending order (the order among equal keys is not specified).
Argsort(key) == SortGroups(key, DOMAIN key)

----------------------------------------------------------------------------
(* Estimators and library calls *)

dummy == <<"dummyregressor">>
ridgecv == <<"columntransformer", "ridgecv">>
random_forest_regression == <<"columntransformer", "randomforestregressor">>
xgb_regression_raw == <<"xgbregressor">>
xgb_regression == <<"columntransformer", "xgbregressor">>

\* random_state of each estimator: <<>> is None.
random_state_none(est) == <<>>
random_state(est) ==
    IF est \in {random_forest_regression, xgb_regression} THEN <<123>> ELSE <<>>

\* The estimators whose fit draws random numbers.
Randomized(est) == est[Len(est)] \in {"randomforestregressor", "xgbregressor"}

\* check_random_state: a fixed seed, or OS entropy when random_state is None.
\* 0 stands for "no randomness used".
Seed(est) ==
    IF ~Randomized(est) THEN 0
    ELSE IF random_state(est) = <<>> THEN entropy[run] ELSE random_state(est)[1]

dummy_scores_call == [op |-> "cross_validate", est |-> dummy, data |-> "train", cv |-> 5]
ridgecv_scores_call == [op |-> "cross_validate", est |-> ridgecv, data |-> "train", cv |-> 10]
random_forest_scores_call ==
    [op |-> "cross_validate", est |-> random_forest_regression, data |-> "train", cv |-> 5]
xgb_scores_call_on_test ==
    [op |-> "cross_validate", est |-> xgb_regression, data |-> "test", cv |-> 5]
xgb_scores_call ==
    [op |-> "cross_validate", est |-> xgb_regression, data |-> "train", cv |-> 5]

Data(d) == IF d = "train" THEN X_train ELSE X_test

\* An R2 score: the computation that produces it.
R2(c, part) ==
    [est |-> c.est, fit_on |-> Data(c.data), cv |-> c.cv, seed |-> Seed(c.est), part |-> part]

\* pd.DataFrame(cross_validate(...)).mean().round(4).tolist():
\* [fit_time, score_time, test_score, train_score]
MeanScores(c, m) ==
    <<Round4(elapsed[run][m][1]), Round4(elapsed[run][m][2]),
      R2(c, "test_score"), R2(c, "train_score")>>

Metrics == <<"fit_time", "score_time", "test_score", "train_score">>

----------------------------------------------------------------------------
(* File system *)

DirNames == <<"results", "tables", "v1", "final">>
Paths == {SubSeq(DirNames, 1, n) : n \in 0..MaxDepth}
Prefixes(d) == {SubSeq(d, 1, n) : n \in 1..Len(d)}
Files == 1..3
Faults == {"none", "PermissionError", "ENOSPC"}

\* DataFrame.to_csv(out_file k): the error raised, or "ok".
ToCsv(k, ds) ==
    IF out_dir[k] # <<>> /\ out_dir[k] \notin ds THEN "FileNotFoundError"
    ELSE fault[k] \* "none" is success
ToCsvOk(r) == r = "none"

\* os.mkdir(d): the parent must exist.
Mkdir(d, ds) ==
    IF d = <<>> THEN [err |-> "FileNotFoundError", dirs |-> ds]
    ELSE IF d \in ds THEN [err |-> "FileExistsError", dirs |-> ds]
    ELSE IF Len(d) > 1 /\ SubSeq(d, 1, Len(d) - 1) \notin ds
    THEN [err |-> "FileNotFoundError", dirs |-> ds]
    ELSE [err |-> "none", dirs |-> ds \cup {d}]

\* os.makedirs(d): creates d and every missing ancestor.
Makedirs(d, ds) ==
    IF d = <<>> THEN [err |-> "FileNotFoundError", dirs |-> ds]
    ELSE IF d \in ds THEN [err |-> "FileExistsError", dirs |-> ds]
    ELSE [err |-> "none", dirs |-> ds \cup Prefixes(d)]

----------------------------------------------------------------------------
(* Control flow of main() *)

ProgramWriteEarly ==
    <<"load", "cv_dummy", "cv_ridge", "cv_forest", "cv_xgb", "scores_table",
      "to_csv1", "refit", "test_score", "coefficients", "to_csv2", "to_csv3", "done">>

Program ==
    <<"load", "cv_dummy", "cv_ridge", "cv_forest", "cv_xgb", "scores_table",
      "refit", "test_score", "coefficients", "to_csv1", "to_csv2", "to_csv3", "done">>

Pos(l) == CHOOSE i \in 1..Len(Program) : Program[i] = l
After(l) == Program[Pos(l) + 1]
WriteLabel == <<"to_csv1", "to_csv2", "to_csv3">>

Fail(e) ==
    /\ pc' = "failed"
    /\ err' = e
    /\ failed_at' = pc

Continue ==
    /\ pc' = After(pc)
    /\ UNCHANGED <<err, failed_at>>

\* Lines 44-49: read both CSV files, select the columns.
Load ==
    /\ pc = "load"
    /\ IF in_exists = {1, 2} THEN Continue ELSE Fail("FileNotFoundError")
    /\ UNCHANGED <<run, env_vars, fs_vars, fit_vars, calls, store_scores, scores_df,
                   prev_scores>>

CrossValidate(label, c, name, m) ==
    /\ pc = label
    /\ calls' = Append(calls, c)
    /\ store_scores' = Append(store_scores, [name |-> name, values |-> MeanScores(c, m)])
    /\ Continue
    /\ UNCHANGED <<run, env_vars, fs_vars, fit_vars, scores_df, prev_scores>>

\* Lines 60-62.
CvDummy == CrossValidate("cv_dummy", dummy_scores_call, "dummy_score", 1)
\* Lines 86-88.
CvRidge == CrossValidate("cv_ridge", ridgecv_scores_call, "ridgecv_score", 2)
\* Lines 91-93.
CvForest == CrossValidate("cv_forest", random_forest_scores_call, "random_forest", 3)
\* Lines 96-98.
CvXgb == CrossValidate("cv_xgb", xgb_scores_call, "XGB_Regression", 4)

\* Lines 101-102: one row per metric, one column per model.
ScoresTable ==
    /\ pc = "scores_table"
    /\ scores_df' = [i \in 1..Len(Metrics) |->
                        [index |-> Metrics[i],
                         cells |-> [j \in 1..Len(store_scores) |->
                                       [name |-> store_scores[j].name,
                                        value |-> store_scores[j].values[i]]]]]
    /\ Continue
    /\ UNCHANGED <<run, env_vars, fs_vars, fit_vars, calls, store_scores, prev_scores>>

\* Line 105: ridgecv.fit(X_train, y_train) fits `preprocessor` in place.
Refit ==
    /\ pc = "refit"
    /\ LET fitted == FitPreprocessor(X_train) IN
       /\ categories_' = <<fitted>>
       /\ coef_' = RidgeCoef(NumColumns(fitted), fit_case)
    /\ calls' = Append(calls, [op |-> "fit", est |-> ridgecv, data |-> "train", cv |-> 0])
    /\ Continue
    /\ UNCHANGED <<run, env_vars, fs_vars, X_test_enc, test_set_score, inds, feature_table,
                   store_scores, scores_df, prev_scores>>

\* Lines 106-110: r2_score(y_test, ridgecv.predict(X_test)).
TestScore ==
    /\ pc = "test_score"
    /\ LET enc == [i \in 1..Len(X_test) |-> Transform(categories_[1], X_test[i])]
           ok == \A i \in 1..Len(X_test) : enc[i].ok
           predict == [op |-> "predict", est |-> ridgecv, data |-> "test", cv |-> 0]
           score == [op |-> "r2_score", est |-> ridgecv, data |-> "test", cv |-> 0]
       IN IF ok
          THEN /\ X_test_enc' = enc
               /\ calls' = calls \o <<predict, score>>
               /\ test_set_score' =
                      <<[index |-> "test_score",
                         RidgeCV |-> [est |-> ridgecv, fit_on |-> X_train,
                                      coef |-> coef_, scored_on |-> X_test]]>>
               /\ Continue
          ELSE /\ X_test_enc' = enc
               /\ calls' = Append(calls, predict)
               /\ test_set_score' = test_set_score
               /\ Fail("ValueError")
    /\ UNCHANGED <<run, env_vars, fs_vars, categories_, coef_, inds, feature_table,
                   store_scores, scores_df, prev_scores>>

\* Lines 113-121: feature names, rounded weights, argsort, table.
Coefficients ==
    /\ pc = "coefficients"
    /\ \E p \in Argsort(coef_) :
          LET features == Features(categories_[1])
              weights == [i \in DOMAIN coef_ |-> Round2(coef_[i])]
          IN /\ inds' = p
             /\ feature_table' = [i \in DOMAIN p |->
                                     [feature |-> features[p[i]],
                                      coefficient |-> weights[p[i]]]]
    /\ Continue
    /\ UNCHANGED <<run, env_vars, fs_vars, categories_, coef_, X_test_enc, test_set_score,
                   calls, store_scores, scores_df, prev_scores>>

\* Lines 125-129 (k = 1), 131-135 (k = 2), 137-141 (k = 3):
\*   try: to_csv   except: os.makedirs(dirname); to_csv
Write(k) ==
    /\ pc = WriteLabel[k]
    /\ LET r1 == ToCsv(k, dirs)
           md == Makedirs(out_dir[k], dirs)
           retried == ~ToCsvOk(r1) /\ md.err = "none"
           r2 == ToCsv(k, md.dirs)
           last == IF retried THEN r2 ELSE r1
           raised == IF ToCsvOk(r1) THEN "none"
                     ELSE IF md.err # "none" THEN md.err
                     ELSE r2
       IN /\ attempts' = [attempts EXCEPT ![k] = IF retried THEN <<r1, r2>> ELSE <<r1>>]
          /\ mkdirs' = [mkdirs EXCEPT ![k] = IF ToCsvOk(r1) THEN <<>> ELSE <<md.err>>]
          /\ dirs' = IF ToCsvOk(r1) THEN dirs ELSE md.dirs
          /\ written' = IF ToCsvOk(last) THEN written \cup {k} ELSE written
          /\ created' = IF ToCsvOk(last) \/ last = "ENOSPC" \/ r1 = "ENOSPC"
                        THEN created \cup {k} ELSE created
          /\ IF raised = "none" THEN Continue ELSE Fail(raised)
    /\ UNCHANGED <<run, env_vars, fit_vars, calls, store_scores, scores_df, prev_scores>>

Write1 == Write(1)
Write2 == Write(2)
Write3 == Write(3)

\* Lines 144-145: the script is invoked again on the same arguments. The
\* file system is as the first run left it; the process state is fresh.
Rerun ==
    /\ pc = "done"
    /\ run = 1
    /\ run' = 2
    /\ pc' = "load"
    /\ prev_scores' = scores_df
    /\ calls' = <<>>
    /\ store_scores' = <<>>
    /\ scores_df' = <<>>
    /\ categories_' = <<>>
    /\ coef_' = <<>>
    /\ X_test_enc' = <<>>
    /\ test_set_score' = <<>>
    /\ inds' = <<>>
    /\ feature_table' = <<>>
    /\ created' = {}
    /\ written' = {}
    /\ attempts' = [k \in Files |-> <<>>]
    /\ mkdirs' = [k \in Files |-> <<>>]
    /\ UNCHANGED <<err, failed_at, env_vars, dirs>>

Next ==
    \/ Load
    \/ CvDummy
    \/ CvRidge
    \/ CvForest
    \/ CvXgb
    \/ ScoresTable
    \/ Refit
    \/ TestScore
    \/ Coefficients
    \/ Write1
    \/ Write2
    \/ Write3
    \/ Rerun

----------------------------------------------------------------------------
(* Inputs *)

BinaryRows ==
    {[GARAGE |-> "N", FIREPLACE |-> "N", BASEMENT |-> "N", BSMTDEVL |-> "N"],
     [GARAGE |-> "Y", FIREPLACE |-> "N", BASEMENT |-> "Y", BSMTDEVL |-> "Y"]}

Row(d, b) ==
    [BLDG_DESC |-> d, GARAGE |-> b.GARAGE, FIREPLACE |-> b.FIREPLACE,
     BASEMENT |-> b.BASEMENT, BSMTDEVL |-> b.BSMTDEVL]

TrainRows == {Row(d, b) : d \in {"A", "B", NA}, b \in BinaryRows}
TestRows == {Row(d, b) : d \in {"A", "C", NA}, b \in BinaryRows}

TrainTables == UNION {[1..n -> TrainRows] : n \in 1..MaxRows}
TestTables == [1..1 -> TestRows]

Runs == {1, 2}
Models == 1..4
\* <<fit_time, score_time>> in units of 0.00001 s: the fit times show as
\* 0.0001 and 0.0003, both score times show as 0.0.
TimeProfiles == {<<12, 4>>, <<26, 3>>}
EntropyValues == {7, 9}

\* Directory sets closed under parent.
DirStates == {Prefixes(d) : d \in Paths}

ProgramInit ==
    /\ pc = "load"
    /\ run = 1
    /\ err = "none"
    /\ failed_at = "none"
    /\ created = {}
    /\ written = {}
    /\ calls = <<>>
    /\ store_scores = <<>>
    /\ scores_df = <<>>
    /\ prev_scores = <<>>
    /\ categories_ = <<>>
    /\ coef_ = <<>>
    /\ X_test_enc = <<>>
    /\ test_set_score = <<>>
    /\ inds = <<>>
    /\ feature_table = <<>>
    /\ attempts = [k \in Files |-> <<>>]
    /\ mkdirs = [k \in Files |-> <<>>]

NominalTrain == <<Row("A", [GARAGE |-> "N", FIREPLACE |-> "N", BASEMENT |-> "N", BSMTDEVL |-> "N"]),
                  Row("B", [GARAGE |-> "Y", FIREPLACE |-> "N", BASEMENT |-> "Y", BSMTDEVL |-> "Y"])>>
UnseenFireplace ==
    Row("A", [GARAGE |-> "Y", FIREPLACE |-> "Y", BASEMENT |-> "Y", BSMTDEVL |-> "Y"])
NominalElapsed == [r \in Runs |-> [m \in Models |-> <<12, 4>>]]
NominalEntropy == [r \in Runs |-> 7]

\* The writer's inputs vary: every output directory, every initial
\* directory tree, every fault; one training table.
Init ==
    /\ ProgramInit
    /\ in_exists \in {{1, 2}, {1}}
    /\ X_train = NominalTrain
    /\ X_test \in {<<NominalTrain[1]>>, <<NominalTrain[2]>>, <<UnseenFireplace>>}
    /\ fit_case = [stride |-> 1, offset |-> 0]
    /\ elapsed = NominalElapsed
    /\ entropy = NominalEntropy
    /\ out_dir \in [Files -> Paths]
    /\ fault \in [Files -> Faults]
    /\ dirs \in DirStates

Spec == Init /\ [][Next]_vars

\* The data vary: every training table, test row and ridge solution; the
\* output directories are absent or present, with or without a fault.
InitFit ==
    /\ ProgramInit
    /\ in_exists = {1, 2}
    /\ X_train \in TrainTables
    /\ X_test \in TestTables
    /\ fit_case \in {c \in FitCases : c.stride = 1}
    /\ elapsed = NominalElapsed
    /\ entropy = NominalEntropy
    /\ out_dir = [k \in Files |-> SubSeq(DirNames, 1, 1)]
    /\ fault \in {[k \in Files |-> "none"], [k \in Files |-> IF k = 3 THEN "ENOSPC" ELSE "none"]}
    /\ dirs = {}

SpecFit == InitFit /\ [][Next]_vars

\* The environment of the two runs varies: timings and entropy.
InitRerun ==
    /\ ProgramInit
    /\ in_exists = {1, 2}
    /\ X_train = NominalTrain
    /\ X_test = <<NominalTrain[1]>>
    /\ fit_case = [stride |-> 2, offset |-> 0]
    /\ elapsed \in [Runs -> [Models -> TimeProfiles]]
    /\ entropy \in [Runs -> EntropyValues]
    /\ out_dir = [k \in Files |-> SubSeq(DirNames, 1, 1)]
    /\ fault = [k \in Files |-> "none"]
    /\ dirs \in {{}, {SubSeq(DirNames, 1, 1)}}

SpecRerun == InitRerun /\ [][Next]_vars

----------------------------------------------------------------------------
(* Claims *)

FirstError(k) == attempts[k][1]
Handled(k) == attempts[k] # <<>>
FailedAtWrite(k) == pc = "failed" /\ failed_at = WriteLabel[k]

\* C1: for each output table, when the first to_csv fails because the
\* destination's parent directory does not exist, os.makedirs is called once
\* and creates that directory with every missing ancestor, to_csv is retried
\* exactly once, and, the absent directory being the only obstacle to that
\* file, the file is written and the run does not stop there; a run with no
\* other I/O fault never fails in the write phase.
C1_AbsentDirectoryRecovered ==
    /\ \A k \in Files :
          (Handled(k) /\ FirstError(k) = "FileNotFoundError") =>
             /\ mkdirs[k] = <<"none">>
             /\ Prefixes(out_dir[k]) \subseteq dirs
             /\ Len(attempts[k]) = 2
             /\ fault[k] = "none" =>
                   /\ attempts[k][2] = "none"
                   /\ k \in written
                   /\ ~FailedAtWrite(k)
    /\ (\A k \in Files : fault[k] = "none") => (pc = "failed" => failed_at \notin Range(WriteLabel))

\* C1 witness: a finished first run whose out_file1 directory, two levels
\* deep, was absent: one failed write, one retry, all three files written.
C1_Witness ==
    /\ pc = "done"
    /\ run = 1
    /\ Len(out_dir[1]) = 2
    /\ attempts[1] = <<"FileNotFoundError", "none">>
    /\ out_dir[1] \in dirs
    /\ written = Files

\* C2: a write that fails for a reason other than an absent destination
\* directory triggers no directory creation and no retry, and that write
\* failure is the error that ends the run.
C2_OtherFailuresPropagate ==
    \A k \in Files :
       (Handled(k) /\ FirstError(k) \notin {"none", "FileNotFoundError"}) =>
          /\ mkdirs[k] = <<>>
          /\ Len(attempts[k]) = 1
          /\ FailedAtWrite(k)
          /\ err = FirstError(k)

\* C3: the coefficient table is ascending in the coefficient it shows (the
\* rounded value), for every pair of adjacent rows.
C3_TableAscending ==
    \A i \in 1..(Len(feature_table) - 1) :
       feature_table[i].coefficient <= feature_table[i + 1].coefficient

\* C3 witness: a table with two adjacent rows whose fitted coefficients differ
\* and whose shown coefficients are equal, and two rows that show different
\* values.
C3_Witness ==
    /\ feature_table # <<>>
    /\ \E i \in 1..(Len(inds) - 1) :
          /\ coef_[inds[i]] < coef_[inds[i + 1]]
          /\ feature_table[i].coefficient = feature_table[i + 1].coefficient
    /\ \E i \in 1..(Len(inds) - 1) :
          feature_table[i].coefficient < feature_table[i + 1].coefficient

\* C4 (as claimed): rows with equal fitted coefficients appear in original
\* feature order, the smaller original index first.
C4_TiesInFeatureOrder ==
    \A i, j \in DOMAIN inds :
       (i < j /\ coef_[inds[i]] = coef_[inds[j]]) => inds[i] < inds[j]

\* C4 (amended): the rows are a permutation of the features, ordered
\* ascending by the fitted (unrounded) coefficient, each row showing its own
\* feature's name and rounded weight; rows with equal coefficients are
\* therefore adjacent, in no particular order.
C4_OrderedByFittedCoefficient ==
    inds # <<>> =>
       /\ Len(inds) = Len(coef_)
       /\ {inds[i] : i \in DOMAIN inds} = DOMAIN coef_
       /\ \A i, j \in DOMAIN inds : i < j => coef_[inds[i]] <= coef_[inds[j]]
       /\ \A i \in DOMAIN inds :
             /\ feature_table[i].feature = Features(categories_[1])[inds[i]]
             /\ feature_table[i].coefficient = Round2(coef_[inds[i]])

\* C4 witness: two features with equal coefficients, the one with the larger
\* original index first.
C4_Witness ==
    /\ feature_table # <<>>
    /\ \E i \in 1..(Len(inds) - 1) :
          /\ coef_[inds[i]] = coef_[inds[i + 1]]
          /\ inds[i] > inds[i + 1]

ObservedCategories == {X_train[i].BLDG_DESC : i \in 1..Len(X_train)} \ {NA}
HasMissing == \E i \in 1..Len(X_train) : X_train[i].BLDG_DESC = NA

\* C5 (as claimed): the coefficient table has (distinct categories observed
\* in BLDG_DESC) + 4 + 4 rows, with or without missing BLDG_DESC values.
C5_RowCount ==
    feature_table # <<>> =>
       Len(feature_table) = Cardinality(ObservedCategories) + Len(binary_features)
                            + Len(numerical_features)

\* C5 (amended): a missing BLDG_DESC value adds one row, for the imputer's
\* placeholder category.
C5_RowCountWithPlaceholder ==
    feature_table # <<>> =>
       Len(feature_table) = Cardinality(ObservedCategories)
                            + (IF HasMissing THEN 1 ELSE 0)
                            + Len(binary_features) + Len(numerical_features)

\* C5 witness: a table built from training data with a missing BLDG_DESC, a
\* binary column with one value and a binary column with two.
C5_Witness ==
    /\ feature_table # <<>>
    /\ HasMissing
    /\ ObservedCategories # {}
    /\ Len(categories_[1].bin[2]) = 1
    /\ Len(categories_[1].bin[1]) = 2

\* C6 (as claimed): every value of the cross-validation score table is the
\* same in the two runs.
C6_SameTable ==
    (run = 2 /\ scores_df # <<>>) => scores_df = prev_scores

\* C6 (amended): the test_score and train_score rows are the same in the two
\* runs (fit_time and score_time are measured and need not be).
C6_SameScores ==
    (run = 2 /\ scores_df # <<>>) =>
       \A i \in DOMAIN Metrics :
          Metrics[i] \in {"test_score", "train_score"} =>
             /\ scores_df[i].index = Metrics[i]
             /\ scores_df[i] = prev_scores[i]

\* C6 witness: a second run with its table built, whose fit_time row differs
\* from the first run's, under different OS entropy.
C6_Witness ==
    /\ run = 2
    /\ scores_df # <<>>
    /\ scores_df[1] # prev_scores[1]
    /\ scores_df[3] = prev_scores[3]
    /\ entropy[1] # entropy[2]

CallsBefore(i, op) == {j \in 1..(i - 1) : calls[j].op = op}

\* C7: the test data are used once: by the predict and r2_score of the ridge
\* pipeline, after the four cross-validations and after its refit on the
\* training set; no cross-validation and no other estimator touches them.
C7_TestDataUsedOnce ==
    /\ \A i \in DOMAIN calls :
          calls[i].data = "test" =>
             /\ calls[i].op \in {"predict", "r2_score"}
             /\ calls[i].est = ridgecv
             /\ Cardinality(CallsBefore(i, "cross_validate")) = 4
             /\ \E j \in CallsBefore(i, "fit") :
                   calls[j].est = ridgecv /\ calls[j].data = "train"
    /\ \A i \in DOMAIN calls :
          calls[i].op \in {"cross_validate", "fit"} => calls[i].data = "train"
    /\ \A i, j \in DOMAIN calls :
          (calls[i].op = calls[j].op /\ calls[i].op \in {"predict", "r2_score", "fit"})
             => i = j
    /\ test_set_score # <<>> =>
          \E i, j \in DOMAIN calls : calls[i].op = "predict" /\ calls[j].op = "r2_score"

\* C7 witness: a finished run, the test score computed.
C7_Witness ==
    /\ pc = "done"
    /\ test_set_score # <<>>
    /\ \E i \in DOMAIN calls : calls[i].op = "r2_score" /\ calls[i].data = "test"

Wrapped(est) == est[1] = "columntransformer"

\* C8 (as claimed): every cross-validated model is the preprocessing
\* transformer followed by its estimator.
C8_AllWrapped ==
    \A i \in DOMAIN calls : calls[i].op = "cross_validate" => Wrapped(calls[i].est)

\* C8 (amended): ridge, random forest and gradient-boosted trees are
\* cross-validated as preprocessing followed by the estimator; the dummy
\* baseline is cross-validated alone, on the raw feature table.
C8_AllButDummyWrapped ==
    \A i \in DOMAIN calls :
       calls[i].op = "cross_validate" =>
          IF calls[i].est[Len(calls[i].est)] = "dummyregressor"
          THEN calls[i].est = <<"dummyregressor">>
          ELSE Wrapped(calls[i].est) /\ Len(calls[i].est) = 2

\* C8 witness: the four cross-validations have been made.
C8_Witness ==
    /\ Cardinality({i \in DOMAIN calls : calls[i].op = "cross_validate"}) = 4
    /\ \E i \in DOMAIN calls : calls[i].est = xgb_regression

Unseen(row) == Impute(row.BLDG_DESC) \notin Range(categories_[1].cat)
BinarySeen(row) ==
    \A j \in 1..Len(binary_features) :
       row[binary_features[j]] \in Range(categories_[1].bin[j])

\* C9: a BLDG_DESC value of the test set that the fitted encoder never saw
\* raises no error at predict: its indicator columns are all zero, and,
\* the binary columns holding seen values, the test score is produced.
C9_UnseenCategoryIgnored ==
    X_test_enc # <<>> =>
       \A i \in DOMAIN X_test :
          /\ X_test_enc[i].cat_ok
          /\ Len(X_test_enc[i].cat) = Len(categories_[1].cat)
          /\ Unseen(X_test[i]) => \A j \in DOMAIN X_test_enc[i].cat : X_test_enc[i].cat[j] = 0
          /\ ~Unseen(X_test[i]) =>
                Cardinality({j \in DOMAIN X_test_enc[i].cat : X_test_enc[i].cat[j] = 1}) = 1
          /\ (\A r \in DOMAIN X_test : BinarySeen(X_test[r])) =>
                /\ test_set_score # <<>>
                /\ failed_at # "test_score"

\* C9 witness: the test score produced from a test row whose BLDG_DESC was
\* not in the training data.
C9_Witness ==
    /\ test_set_score # <<>>
    /\ X_test[1].BLDG_DESC = "C"
    /\ X_test_enc[1].cat = [j \in 1..Len(categories_[1].cat) |-> 0]
    /\ pc = "done"

Computed ==
    /\ Cardinality({i \in DOMAIN calls : calls[i].op = "cross_validate"}) = 4
    /\ scores_df # <<>>
    /\ coef_ # <<>>
    /\ test_set_score # <<>>
    /\ feature_table # <<>>

\* C10: an output file is touched only after all computation has completed
\* and after every earlier output file has been written; a run that fails
\* before the write phase touches none.
C10_WritesLastAndInOrder ==
    /\ \A k \in Files :
          (k \in created \/ Handled(k)) =>
             /\ Computed
             /\ \A j \in 1..(k - 1) : j \in written
    /\ written \subseteq created
    /\ (pc = "failed" /\ failed_at \notin Range(WriteLabel)) =>
          /\ created = {}
          /\ \A k \in Files : ~Handled(k)

\* C10 witness: the first two files written, the third not yet attempted.
C10_Witness ==
    /\ pc = "to_csv3"
    /\ written = {1, 2}
    /\ created = {1, 2}
    /\ ~Handled(3)

====
